---- MODULE Spec2Model ----
(***************************************************************************)
(* aws-profiler: the IAM access-key rotation workflow                      *)
(* (aws_profiler/refresh.py, backup.py, profiles.py).                      *)
(*                                                                         *)
(* Strings the code inspects are sequences of lexemes, cut so that every   *)
(* substring the code tests ('assumed-role', ':user/', '/') is a run of    *)
(* whole lexemes.  Access-key ids are <<"AKIA", n>>, the empty string is   *)
(* <<>>, Python's None is <<"None">>.                                      *)
(***************************************************************************)
EXTENDS Integers, Sequences, FiniteSets, TLC

\* ----------------------------------------------------------------- bounds
MaxRuns == 2
MaxExternal == 1
MaxClock == 1
MaxCalls == 2

\* ------------------------------------------------------------ environment
Profiles == {"dev", "prod"}
Principals == {"alice", "bob", "role", "root"}
InitKeyNums == {1, 2, 3}

None == <<"None">>
EmptyStr == <<>>
KeyId(n) == <<"AKIA", n>>
SecretOf(n) == <<"secret", n>>
KeyNum(k) == k[2]
IsKeyId(k) == Len(k) = 2 /\ k[1] = "AKIA"

\* The principal ARN the identity service reports for each principal.
ArnOf(pr) ==
  CASE pr = "alice" -> <<"arn:aws:iam::1", ":", "user", "/", "alice">>
    [] pr = "bob"   -> <<"arn:aws:iam::1", ":", "user", "/", "ops", "/", "bob">>
    [] pr = "role"  -> <<"arn:aws:sts::1", ":", "assumed-role", "/", "Admin", "/", "session">>
    [] pr = "root"  -> <<"arn:aws:iam::1", ":", "root">>

\* ---------------------------------------------------------- pure helpers
\* Python's `sub in s`
Contains(s, sub) ==
  \E i \in 1..(Len(s) - Len(sub) + 1) : SubSeq(s, i, i + Len(sub) - 1) = sub

\* Python's s.split('/')[-1]
LastComponent(s) ==
  LET slashes == {i \in 1..Len(s) : s[i] = "/"}
  IN  IF slashes = {} THEN s
      ELSE LET last == CHOOSE i \in slashes : \A j \in slashes : j <= i
           IN  SubSeq(s, last + 1, Len(s))

\* refresh.py line 86: the step-1 gate, TRUE when the ARN is rejected
NotIamUserMut(user_arn) ==
  Contains(user_arn, <<"assumed-role">>)

NotIamUser(user_arn) ==
  Contains(user_arn, <<"assumed-role">>) \/ ~Contains(user_arn, <<":", "user", "/">>)

\* refresh.py line 111: the 2-key guard, TRUE when rotation must refuse
MaxAccessKeys == 2

TooManyKeysMut(keys) == Cardinality(keys) > MaxAccessKeys

TooManyKeys(keys) == Cardinality(keys) >= MaxAccessKeys

\* The IAM user a UserName parameter designates
IamUsers == {pr \in Principals : ~NotIamUser(ArnOf(pr))}
UserNamed(name) == CHOOSE pr \in IamUsers : LastComponent(ArnOf(pr)) = name

\* configparser section access
SetField(sec, k, v) == [f \in (DOMAIN sec) \cup {k} |-> IF f = k THEN v ELSE sec[f]]
GetField(sec, k) == IF k \in DOMAIN sec THEN sec[k] ELSE None

Section(id, n) ==
  [f \in {"aws_access_key_id", "aws_secret_access_key", "region"} |->
     CASE f = "aws_access_key_id" -> id
       [] f = "aws_secret_access_key" -> SecretOf(n)
       [] f = "region" -> <<"us-east-1">>]
NoKeySection == [f \in {"region"} |-> <<"us-east-1">>]

VARIABLES
  credExists,         \* ~/.aws/credentials exists
  credFile,           \* its sections: profile name -> (field -> value)
  backups,            \* files under ~/.aws/backups: records [name, content, mode]
  remoteKeys,         \* live access keys of each principal
  nextKey,            \* number of the next key the remote service issues
  clock,              \* wall-clock second
  pc,                 \* position of the running refresh_iam_user_credentials
  profile_name, delete_old,
  user_arn, username, old_access_key_id, current_keys,
  backup_result, new_access_key_id,
  result,             \* value returned by the run
  returned_at,        \* step at which the run returned
  log,                \* mutating calls the run has made, in order
  raced,              \* the target section was removed externally after step 3
  runs, externals,
  last_error,         \* the exception the run's handlers caught, if any
  configFile,         \* ~/.aws/config: "absent", "malformed" or its sections
  call,               \* the operation last called on its own, with its inputs
  ret,                \* what that call returned
  calls               \* the backup_credentials calls made so far

vars == <<credExists, credFile, backups, remoteKeys, nextKey, clock, pc,
          profile_name, delete_old, user_arn, username, old_access_key_id,
          current_keys, backup_result, new_access_key_id, result, returned_at,
          log, raced, runs, externals, last_error, configFile, call, ret, calls>>

env == <<credExists, credFile, backups, remoteKeys, nextKey>>
locals == <<user_arn, username, old_access_key_id, current_keys,
            backup_result, new_access_key_id>>

\* what the operations called on their own use; a rotation run leaves it alone
others == <<configFile, call, ret, calls>>

NoError == [kind |-> "none", code |-> ""]
\* the exception a fault of a remote call raises
ErrorOf(f) == [kind |-> f, code |-> IF f = "ClientError" THEN "AccessDenied" ELSE ""]

NotListed == {-1}
NoResult == [success |-> FALSE, message |-> [text |-> "none"]]

\* profiles.py get_current_access_key_id
get_current_access_key_id(p) ==
  IF ~credExists THEN None
  ELSE IF p \in DOMAIN credFile THEN GetField(credFile[p], "aws_access_key_id")
  ELSE None

\* The principal owning a live key, "none" for a key that is not live
OwnerOf(n) ==
  IF \E pr \in Principals : n \in remoteKeys[pr]
  THEN CHOOSE pr \in Principals : n \in remoteKeys[pr]
  ELSE "none"

ClientError(code) ==
  [success |-> FALSE, message |-> [text |-> "AWS Error", code |-> code]]
OtherError(detail) ==
  [success |-> FALSE, message |-> [text |-> "Error", detail |-> detail]]


\* ------------------------------------------------------------- backup.py
\* access_key_id[-8:]: the "AKIA" lexeme and the filler lie before the last
\* eight characters, which the final lexeme stands for
Last8(k) == IF Len(k) = 0 THEN <<>> ELSE <<k[Len(k)]>>

\* the file name without the key suffix
BackupNameNoKey(p, k) == <<"credentials_backup", p, <<>>, clock>>

\* lines 38-40
BackupName(p, k) == <<"credentials_backup", p, Last8(k), clock>>

BackupOutcomes == {"ok", "mkdir_raises", "read_raises", "open_raises", "chmod_raises"}

\* ---- configparser: a file's text is a sequence of lines, a section header
\* or an option; a parsed file maps section names to their options
SectionOrder == <<"dev", "prod">>
FieldOrder == <<"aws_access_key_id", "aws_secret_access_key", "region">>
HeaderLine(name) == [kind |-> "section", name |-> name, value |-> <<>>]
OptionLine(key, value) == [kind |-> "option", name |-> key, value |-> value]

SectionLines(name, sec) ==
  LET keys == SelectSeq(FieldOrder, LAMBDA f : f \in DOMAIN sec)
  IN  <<HeaderLine(name)>> \o [i \in 1..Len(keys) |-> OptionLine(keys[i], sec[keys[i]])]

RECURSIVE WriteFrom(_, _)
WriteFrom(cfg, i) ==
  IF i > Len(SectionOrder) THEN <<>>
  ELSE (IF SectionOrder[i] \in DOMAIN cfg
          THEN SectionLines(SectionOrder[i], cfg[SectionOrder[i]])
          ELSE <<>>) \o WriteFrom(cfg, i + 1)

\* ConfigParser.write
ConfigWrite(cfg) == WriteFrom(cfg, 1)

\* ConfigParser.read accepts a text whose first line is a header and whose
\* section names are distinct (DuplicateSectionError otherwise)
ParseOK(text) ==
  /\ Len(text) > 0 => text[1].kind = "section"
  /\ \A i, j \in 1..Len(text) :
       (text[i].kind = "section" /\ text[j].kind = "section" /\ text[i].name = text[j].name)
         => i = j

\* ConfigParser.read
ConfigRead(text) ==
  LET headers == {i \in 1..Len(text) : text[i].kind = "section"}
      OptsOf(h) == {j \in (h + 1)..Len(text) : \A m \in (h + 1)..j : text[m].kind = "option"}
  IN  [n \in {text[i].name : i \in headers} |->
         LET h == CHOOSE i \in headers : text[i].name = n
         IN  [k \in {text[j].name : j \in OptsOf(h)} |->
                text[CHOOSE j \in OptsOf(h) : text[j].name = k].value]]

\* lines 43-44: the config written to the backup holds the profile's section only
BackupContentAll(cfg, p) == ConfigWrite(cfg)

BackupContent(cfg, p) == ConfigWrite([q \in {p} |-> cfg[p]])

\* lines 47-48 with the file opened for appending
WriteBackupAppend(name, content, mode) ==
  LET old == {b \in backups : b.name = name}
      before == IF old = {} THEN <<>> ELSE (CHOOSE b \in old : TRUE).content
  IN  {b \in backups : b.name # name}
        \cup {[name |-> name, content |-> before \o content, mode |-> mode]}

\* lines 47-51: open(backup_path, 'w'), write, chmod
WriteBackup(name, content, mode) ==
  {b \in backups : b.name # name} \cup {[name |-> name, content |-> content, mode |-> mode]}

\* open(..., 'w') keeps the mode of a file that exists already
ModeBefore(name) ==
  IF \E b \in backups : b.name = name
    THEN (CHOOSE b \in backups : b.name = name).mode
    ELSE "default"

\* backup_credentials(profile_name, access_key_id) under file-system outcome o:
\* raised (the call raises instead of returning), wrote (a backup file was
\* written), result, files (the backups directory afterwards)
backup_credentials(p, k, o) ==
  LET failed == [success |-> FALSE, message |-> [text |-> "Failed to create backup"]]
      sections == IF credExists THEN DOMAIN credFile ELSE {}
  IN
  IF o = "mkdir_raises"
    THEN [raised |-> TRUE, wrote |-> FALSE, result |-> failed, files |-> backups]
  ELSE IF o = "read_raises"
    THEN [raised |-> FALSE, wrote |-> FALSE, result |-> failed, files |-> backups]
  ELSE IF p \notin sections
    THEN [raised |-> FALSE, wrote |-> FALSE,
          result |-> [success |-> FALSE,
                      message |-> [text |-> "not found in credentials file", profile |-> p]],
          files |-> backups]
  ELSE IF o = "open_raises"
    THEN [raised |-> FALSE, wrote |-> FALSE, result |-> failed, files |-> backups]
  ELSE IF o = "chmod_raises"
    THEN [raised |-> FALSE, wrote |-> TRUE, result |-> failed,
          files |-> WriteBackup(BackupName(p, k), BackupContent(credFile, p),
                               ModeBefore(BackupName(p, k)))]
  ELSE [raised |-> FALSE, wrote |-> TRUE,
        result |-> [success |-> TRUE, backup_file |-> BackupName(p, k)],
        files |-> WriteBackup(BackupName(p, k), BackupContent(credFile, p), "0600")]

\* ------------------------------------------------------------ refresh.py
Faults == {"none", "ClientError", "Exception"}

FaultResultMut(f) == [success |-> TRUE, message |-> [text |-> "Error", detail |-> "exception"]]

FaultResultGeneric(f) == OtherError("exception")

\* lines 167-178: the two exception handlers
FaultResult(f) == IF f = "ClientError" THEN ClientError("AccessDenied") ELSE OtherError("exception")

Return(r, step) ==
  /\ result' = r
  /\ returned_at' = step
  /\ pc' = "done"

\* lines 57-74: entry; the credentials file must exist
Start(p, d) ==
  /\ pc \in {"idle", "done"}
  /\ runs < MaxRuns
  /\ runs' = runs + 1
  /\ profile_name' = p
  /\ delete_old' = d
  /\ user_arn' = None /\ username' = None /\ old_access_key_id' = None
  /\ current_keys' = NotListed
  /\ backup_result' = NoResult
  /\ new_access_key_id' = None
  /\ log' = <<>>
  /\ raced' = FALSE
  /\ last_error' = NoError
  /\ IF credExists
       THEN /\ pc' = "identity"
            /\ result' = NoResult
            /\ returned_at' = "running"
       ELSE Return([success |-> FALSE, message |-> [text |-> "Credentials file not found"]], "exists")
  /\ UNCHANGED <<env, clock, externals>>

\* refresh_iam_user_credentials(profile_name, delete_old) is called
Enter ==
  /\ \E p \in Profiles, d \in BOOLEAN : Start(p, d)
  /\ UNCHANGED others

\* lines 78-83: what the session and the identity check yield for the profile.
\* A key id stored for the profile is what authenticates; with none stored
\* another provider may supply credentials of any live principal, or none.
IdentityOutcomes(p) ==
  LET k == get_current_access_key_id(p)
  IN  IF IsKeyId(k)
        THEN IF OwnerOf(KeyNum(k)) = "none"
               THEN {[kind |-> "ClientError", code |-> "InvalidClientTokenId", arn |-> None]}
               ELSE {[kind |-> "ok", code |-> "", arn |-> ArnOf(OwnerOf(KeyNum(k)))]}
        ELSE {[kind |-> "Exception", code |-> "", arn |-> None]}
             \cup {[kind |-> "ok", code |-> "", arn |-> ArnOf(pr)] :
                     pr \in {q \in Principals : remoteKeys[q] # {}}}

\* lines 76-93: step 1 and 2, identity check and user-name extraction
GetCallerIdentity ==
  /\ pc = "identity"
  /\ \E f \in Faults :
       IF f # "none"
         THEN /\ Return(FaultResult(f), "identity")
              /\ last_error' = ErrorOf(f)
              /\ UNCHANGED <<user_arn, username>>
         ELSE \E o \in IdentityOutcomes(profile_name) :
                IF o.kind = "ClientError"
                  THEN /\ Return(ClientError(o.code), "identity")
                       /\ last_error' = [kind |-> "ClientError", code |-> o.code]
                       /\ UNCHANGED <<user_arn, username>>
                ELSE IF o.kind = "Exception"
                  THEN /\ Return(OtherError("no credentials"), "identity")
                       /\ last_error' = ErrorOf("Exception")
                       /\ UNCHANGED <<user_arn, username>>
                ELSE /\ user_arn' = o.arn
                     /\ UNCHANGED last_error
                     /\ IF NotIamUser(o.arn)
                          THEN /\ Return([success |-> FALSE,
                                          message |-> [text |-> "is not an IAM user",
                                                       profile |-> profile_name]], "identity")
                               /\ UNCHANGED username
                          ELSE /\ username' = LastComponent(o.arn)
                               /\ pc' = "keyid"
                               /\ UNCHANGED <<result, returned_at>>
  /\ UNCHANGED <<env, clock, profile_name, delete_old, old_access_key_id, current_keys,
                 backup_result, new_access_key_id, log, raced, runs, externals, others>>

\* line 98: `not old_access_key_id`, TRUE for None and for the empty string
KeyIdMissingMut(k) == k = None

KeyIdMissing(k) == k \in {None, EmptyStr}

\* lines 95-102: step 3, the locally stored key id
GetCurrentKey ==
  /\ pc = "keyid"
  /\ old_access_key_id' = get_current_access_key_id(profile_name)
  /\ IF KeyIdMissing(old_access_key_id')
       THEN Return([success |-> FALSE,
                    message |-> [text |-> "Could not find access key ID",
                                 profile |-> profile_name]], "keyid")
       ELSE /\ pc' = "list"
            /\ UNCHANGED <<result, returned_at>>
  /\ UNCHANGED <<env, clock, profile_name, delete_old, user_arn, username, current_keys,
                 backup_result, new_access_key_id, log, raced, runs, externals,
                 last_error, others>>

\* lines 104-115: step 4, list the user's keys and apply the 2-key guard
ListAccessKeys ==
  /\ pc = "list"
  /\ \E f \in Faults :
       IF f # "none"
         THEN /\ Return(FaultResult(f), "list")
              /\ last_error' = ErrorOf(f)
              /\ UNCHANGED current_keys
         ELSE /\ current_keys' = remoteKeys[UserNamed(username)]
              /\ UNCHANGED last_error
              /\ IF TooManyKeys(current_keys')
                   THEN Return([success |-> FALSE,
                                message |-> [text |-> "already has 2 access keys",
                                             user |-> username]], "list")
                   ELSE /\ pc' = "backup"
                        /\ UNCHANGED <<result, returned_at>>
  /\ UNCHANGED <<env, clock, profile_name, delete_old, user_arn, username,
                 old_access_key_id, backup_result, new_access_key_id, log, raced,
                 runs, externals, others>>

\* line 120: `not backup_result['success']`
BackupFailedMut(b) == FALSE

BackupFailed(b) == ~b.success

\* lines 117-121: step 5, back up the profile's section
BackupStep ==
  /\ pc = "backup"
  /\ \E o \in BackupOutcomes :
       LET b == backup_credentials(profile_name, old_access_key_id, o)
       IN  /\ backups' = b.files
           /\ log' = IF b.wrote
                       THEN Append(log, [op |-> "backup_write", key |-> old_access_key_id, ok |-> TRUE])
                       ELSE log
           /\ IF b.raised
                THEN /\ Return(OtherError("exception"), "backup")
                     /\ last_error' = ErrorOf("Exception")
                     /\ UNCHANGED backup_result
                ELSE /\ backup_result' = b.result
                     /\ UNCHANGED last_error
                     /\ IF BackupFailed(b.result)
                          THEN Return(b.result, "backup")
                          ELSE /\ pc' = "create"
                               /\ UNCHANGED <<result, returned_at>>
  /\ UNCHANGED <<credExists, credFile, remoteKeys, nextKey, clock, profile_name, delete_old,
                 user_arn, username, old_access_key_id, current_keys, new_access_key_id,
                 raced, runs, externals, others>>


\* lines 123-127: step 6, the remote service issues a fresh key to the user
CreateAccessKey ==
  /\ pc = "create"
  /\ \E f \in Faults :
       IF f # "none"
         THEN /\ Return(FaultResult(f), "create")
              /\ last_error' = ErrorOf(f)
              /\ UNCHANGED <<remoteKeys, nextKey, new_access_key_id, log>>
         ELSE /\ UNCHANGED last_error
              /\ remoteKeys' = [remoteKeys EXCEPT ![UserNamed(username)] = @ \cup {nextKey}]
              /\ nextKey' = nextKey + 1
              /\ new_access_key_id' = KeyId(nextKey)
              /\ log' = Append(log, [op |-> "create", key |-> KeyId(nextKey), ok |-> TRUE])
              /\ pc' = "rewrite"
              /\ UNCHANGED <<result, returned_at>>
  /\ UNCHANGED <<credExists, credFile, backups, clock, profile_name, delete_old, user_arn,
                 username, old_access_key_id, current_keys, backup_result, raced, runs,
                 externals, others>>

\* line 133: the section-presence re-check on the freshly read file
SectionPresentMut(p) == TRUE

SectionPresent(p) == credExists /\ p \in DOMAIN credFile

\* lines 134-135: overwrite the two credential fields of section p
RewriteSectionMut(file, p, id, secret) ==
  [q \in DOMAIN file |->
     IF q = p THEN SetField(file[p], "aws_access_key_id", id) ELSE file[q]]

RewriteSection(file, p, id, secret) ==
  [q \in (DOMAIN file) \cup {p} |->
     IF q = p
       THEN SetField(SetField(IF p \in DOMAIN file THEN file[p] ELSE <<>>,
                              "aws_access_key_id", id),
                     "aws_secret_access_key", secret)
       ELSE file[q]]

WriteOutcomes == {"ok", "open_raises"}

\* lines 129-144: step 7, read the file again, re-check the section, write
RewriteCredentials ==
  /\ pc = "rewrite"
  /\ IF SectionPresent(profile_name)
       THEN \E o \in WriteOutcomes :
              IF o = "ok"
                THEN /\ credFile' = RewriteSection(credFile, profile_name, new_access_key_id,
                                                   SecretOf(KeyNum(new_access_key_id)))
                     /\ log' = Append(log, [op |-> "file_write", key |-> new_access_key_id,
                                            ok |-> TRUE])
                     /\ pc' = "delete"
                     /\ UNCHANGED <<result, returned_at, last_error>>
                ELSE /\ Return(OtherError("exception"), "rewrite")
                     /\ last_error' = ErrorOf("Exception")
                     /\ UNCHANGED <<credFile, log>>
       ELSE /\ Return([success |-> FALSE,
                       message |-> [text |-> "not found in credentials file",
                                    profile |-> profile_name]], "rewrite")
            /\ UNCHANGED <<credFile, log, last_error>>
  /\ UNCHANGED <<credExists, backups, remoteKeys, nextKey, clock, profile_name, delete_old,
                 user_arn, username, old_access_key_id, current_keys, backup_result,
                 new_access_key_id, raced, runs, externals, others>>

SuccessResult(delete_message) ==
  [success |-> TRUE,
   message |-> [text |-> "Credentials refreshed successfully",
                profile |-> profile_name,
                new_key |-> new_access_key_id,
                backup |-> backup_result.backup_file,
                old |-> delete_message]]

DeleteFaults == Faults

\* line 147: whether the old key is to be deleted
DeleteRequested == delete_old

\* line 151: the key id handed to delete_access_key
KeyToDeleteMut == new_access_key_id

KeyToDelete == old_access_key_id

\* lines 146-165: step 8 and 9, best-effort deletion and the success result
DeleteOrKeep ==
  /\ pc = "delete"
  /\ IF DeleteRequested
       THEN \E f \in DeleteFaults :
              LET user == UserNamed(username)
                  live == IsKeyId(KeyToDelete) /\ KeyNum(KeyToDelete) \in remoteKeys[user]
              IN  IF f = "none" /\ live
                    THEN /\ remoteKeys' = [remoteKeys EXCEPT ![user] = @ \ {KeyNum(KeyToDelete)}]
                         /\ log' = Append(log, [op |-> "delete", key |-> KeyToDelete, ok |-> TRUE])
                         /\ Return(SuccessResult([text |-> "deleted from AWS",
                                                  key |-> old_access_key_id]), "end")
                         /\ UNCHANGED last_error
                    ELSE /\ log' = Append(log, [op |-> "delete", key |-> KeyToDelete, ok |-> FALSE])
                         /\ Return(SuccessResult([text |-> "Warning: Could not delete old key",
                                                  key |-> old_access_key_id]), "end")
                         /\ last_error' = IF f = "none"
                                             THEN [kind |-> "ClientError", code |-> "NoSuchEntity"]
                                             ELSE ErrorOf(f)
                         /\ UNCHANGED remoteKeys
       ELSE /\ Return(SuccessResult([text |-> "is still active in AWS",
                                     key |-> old_access_key_id]), "end")
            /\ UNCHANGED <<remoteKeys, log, last_error>>
  /\ UNCHANGED <<credExists, credFile, backups, nextKey, clock, profile_name, delete_old,
                 user_arn, username, old_access_key_id, current_keys, backup_result,
                 new_access_key_id, raced, runs, externals, others>>

\* ------------------------------------------------------ the environment
\* An external actor removes a section of the credentials file (spec 4.5
\* step 7, spec 5)
ExternalRemoveSection ==
  /\ externals < MaxExternal
  /\ credExists
  /\ \E p \in DOMAIN credFile :
       /\ credFile' = [q \in (DOMAIN credFile) \ {p} |-> credFile[q]]
       /\ raced' = (raced \/ (p = profile_name /\ pc \in {"list", "backup", "create", "rewrite"}))
  /\ externals' = externals + 1
  /\ UNCHANGED <<credExists, backups, remoteKeys, nextKey, clock, pc, profile_name,
                 delete_old, locals, result, returned_at, log, runs, last_error, others>>

\* A wall-clock second passes (only backup_credentials reads the clock, once)
Tick ==
  /\ pc \in {"idle", "done"}
  /\ clock < MaxClock
  /\ clock' = clock + 1
  /\ UNCHANGED <<env, pc, profile_name, delete_old, locals, result, returned_at, log,
                 raced, runs, externals, last_error, others>>

\* ------------------------------------------------------------------ Init
SectionChoices ==
  {NoKeySection, Section(EmptyStr, 1)} \cup {Section(KeyId(n), n) : n \in InitKeyNums}

InitRemote ==
  {[pr \in Principals |-> {n \in InitKeyNums : o[n] = pr}] :
     o \in {f \in [InitKeyNums -> Principals \cup {"none"}] :
              /\ f[1] = "alice"
              /\ f[2] \in {"alice", "bob", "none"}
              /\ f[3] \in {"role", "root"}}}

\* the files and the remote service before the program runs
InitFiles ==
  /\ credExists \in BOOLEAN
  /\ IF credExists
       THEN \E S \in SUBSET Profiles : credFile \in [S -> SectionChoices]
       ELSE credFile = <<>>
  /\ backups = {}
  /\ remoteKeys \in InitRemote
  /\ nextKey = Cardinality(InitKeyNums) + 1
  /\ clock = 0

\* no rotation run has started
InitRun ==
  /\ pc = "idle"
  /\ profile_name = "dev" /\ delete_old = FALSE
  /\ user_arn = None /\ username = None /\ old_access_key_id = None
  /\ current_keys = NotListed
  /\ backup_result = NoResult
  /\ new_access_key_id = None
  /\ result = NoResult
  /\ returned_at = "idle"
  /\ log = <<>>
  /\ raced = FALSE
  /\ runs = 0 /\ externals = 0
  /\ last_error = NoError

NoConfig == [state |-> "absent", sections |-> [n \in {} |-> {}], defaults |-> {}]
NoCall == [fn |-> "none"]
NoRet == [raised |-> FALSE]

\* no operation has been called on its own
InitCalls ==
  /\ call = NoCall
  /\ ret = NoRet
  /\ calls = <<>>

Init ==
  /\ InitFiles
  /\ InitRun
  /\ configFile = NoConfig
  /\ InitCalls

Next ==
  \/ Enter
  \/ GetCallerIdentity
  \/ GetCurrentKey
  \/ ListAccessKeys
  \/ BackupStep
  \/ CreateAccessKey
  \/ RewriteCredentials
  \/ DeleteOrKeep
  \/ ExternalRemoveSection
  \/ Tick

Spec == Init /\ [][Next]_vars


\* ------------------------------------------- backup_credentials on its own
\* key ids a caller passes to backup_credentials
KeyParams == {KeyId(1), KeyId(2)}

\* the credentials file before backup_credentials is called
InitBackup ==
  /\ credExists \in BOOLEAN
  /\ IF credExists
       THEN \E S \in SUBSET Profiles : credFile \in [S -> {NoKeySection, Section(KeyId(1), 1)}]
       ELSE credFile = <<>>
  /\ backups = {}
  /\ remoteKeys = [pr \in Principals |-> {}]
  /\ nextKey = Cardinality(InitKeyNums) + 1
  /\ clock = 0
  /\ InitRun
  /\ configFile = NoConfig
  /\ InitCalls

\* backup.py lines 8-62, one whole call
BackupCall ==
  /\ Len(calls) < MaxCalls
  /\ UNCHANGED <<credExists, credFile, remoteKeys, nextKey, clock, pc, profile_name,
                 delete_old, locals, result, returned_at, log, raced, runs, externals,
                 last_error, configFile>>
  /\ \E p \in Profiles, k \in KeyParams, o \in BackupOutcomes :
       LET b == backup_credentials(p, k, o)
       IN  /\ backups' = b.files
           /\ call' = [fn |-> "backup_credentials", profile |-> p, key |-> k]
           /\ ret' = [raised |-> b.raised, value |-> b.result]
           /\ calls' = Append(calls, [profile |-> p, key |-> k, at |-> clock,
                                      outcome |-> o, raised |-> b.raised,
                                      wrote |-> b.wrote, result |-> b.result,
                                      exists |-> credExists, before |-> credFile,
                                      after |-> credFile'])

NextBackup ==
  \/ BackupCall
  \/ Tick

SpecBackup == InitBackup /\ [][NextBackup]_vars

\* ---------------------------------------------- credentials.py, the helpers
NA == <<"N/A">>

AgeOutcomes == {"ok", "exists_raises", "stat_raises"}

\* timedelta keeps whole days apart from the seconds of the last day
SecondsPerDay == 86400
SecondsPerHour == 3600
SecondsPerMinute == 60

\* the age with the hours counted over the whole elapsed time
FormatAgeAllHours(s) ==
  LET days == s \div SecondsPerDay
      hours == s \div SecondsPerHour
  IN  IF days > 0 THEN <<ToString(days), "d ", ToString(hours), "h">>
      ELSE IF hours > 0 THEN <<ToString(hours), "h">>
      ELSE <<ToString(s \div SecondsPerMinute), "m">>

\* lines 26-37: age = now - mod_time, s whole seconds, formatted
FormatAge(s) ==
  LET days == s \div SecondsPerDay
      seconds == s % SecondsPerDay
      hours == seconds \div SecondsPerHour
  IN  IF days > 0 THEN <<ToString(days), "d ", ToString(hours), "h">>
      ELSE IF hours > 0 THEN <<ToString(hours), "h">>
      ELSE <<ToString(seconds \div SecondsPerMinute), "m">>

\* lines 8-40 for a file modified s seconds ago: the age string, NA, or an
\* exception of lines 10-12 (raised |-> TRUE)
AgeOf(p, g, s) ==
  IF g = "exists_raises" THEN [raised |-> TRUE, value |-> NA]
  ELSE IF ~credExists THEN [raised |-> FALSE, value |-> NA]
  ELSE IF p \notin DOMAIN credFile THEN [raised |-> FALSE, value |-> NA]
  ELSE IF g = "stat_raises" THEN [raised |-> FALSE, value |-> NA]
  ELSE [raised |-> FALSE, value |-> FormatAge(s)]

\* the age of a file modified 3 days and 2 hours ago
ProbeElapsed == (3 * SecondsPerDay) + (2 * SecondsPerHour)

\* lines 8-40 as the probe calls it
get_credential_age(p, g) == AgeOf(p, g, ProbeElapsed)

\* elapsed seconds since the file was modified
ElapsedChoices ==
  {0, 30, 59, 60, 2700, 3599, 3600, 28800, 86399, 86400, 90000, 183600, 277200}

\* one whole call of get_credential_age
AgeCall ==
  /\ \E p \in Profiles, g \in AgeOutcomes, s \in ElapsedChoices :
       /\ call' = [fn |-> "get_credential_age", profile |-> p, outcome |-> g, elapsed |-> s,
                   sections |-> IF credExists THEN DOMAIN credFile ELSE {}]
       /\ ret' = AgeOf(p, g, s)
  /\ UNCHANGED <<credExists, credFile, backups, remoteKeys, nextKey, clock, pc, profile_name,
                 delete_old, user_arn, username, old_access_key_id, current_keys,
                 backup_result, new_access_key_id, result, returned_at, log, raced, runs,
                 externals, last_error, configFile, calls>>

\* what the session yields: no token, a token whose expiration the remote
\* call gives or fails to give, credential material that cannot be read, no
\* credential material, or no client
SessionOutcomes ==
  {"permanent", "token", "token_unknown", "credentials_raise", "no_credentials",
   "client_raises"}

\* the remaining time with the hours always shown
FormatRemainingWithHours(r) ==
  <<ToString(r \div SecondsPerHour), "h ",
    ToString((r % SecondsPerHour) \div SecondsPerMinute), "m">>

\* lines 60-69: time_left of r whole seconds, formatted
FormatRemaining(r) ==
  LET hours == r \div SecondsPerHour
      minutes == (r % SecondsPerHour) \div SecondsPerMinute
  IN  IF hours > 0 THEN <<ToString(hours), "h ", ToString(minutes), "m">>
      ELSE <<ToString(minutes), "m">>

\* lines 43-92 for a token with r seconds left
ExpirationOf(t, r) ==
  CASE t = "permanent" -> [expires_in |-> <<"Permanent">>, expiration_date |-> <<"Never">>]
    [] t = "token" -> [expires_in |-> FormatRemaining(r),
                       expiration_date |-> <<"2026-01-01 00:00:00 UTC">>]
    [] t = "token_unknown" -> [expires_in |-> <<"Temporary">>, expiration_date |-> NA]
    [] t \in {"credentials_raise", "no_credentials", "client_raises"} ->
         [expires_in |-> NA, expiration_date |-> NA]

\* a token with 1 hour and 5 minutes left
ProbeRemaining == SecondsPerHour + (5 * SecondsPerMinute)

\* lines 43-92 as the probe calls it
get_credential_expiration(t) == ExpirationOf(t, ProbeRemaining)

\* seconds left until the token expires
RemainingChoices == {0, 59, 60, 1800, 3599, 3600, 13500, 41400, 43200}

\* one whole call of get_credential_expiration
ExpirationCall ==
  /\ \E t \in SessionOutcomes, r \in RemainingChoices :
       /\ call' = [fn |-> "get_credential_expiration", session |-> t, remaining |-> r]
       /\ ret' = [raised |-> FALSE, value |-> ExpirationOf(t, r)]
  /\ UNCHANGED <<credExists, credFile, backups, remoteKeys, nextKey, clock, pc, profile_name,
                 delete_old, user_arn, username, old_access_key_id, current_keys,
                 backup_result, new_access_key_id, result, returned_at, log, raced, runs,
                 externals, last_error, configFile, calls>>

\* ---------------------------------------------------------- account_info.py
\* ARNs an identity check can return beyond those of Principals
FederatedArn == <<"arn:aws:sts::1", ":", "federated-", "user", "/", "carol">>
UnusualArn == <<"arn:aws:iam::1", ":", "something-unusual">>
RoleUserArn == <<"arn:aws:sts::1", ":", "assumed-role", "/", "power", "user", "/", "sess">>
ProbeArns == {ArnOf(pr) : pr \in Principals} \cup {FederatedArn, UnusualArn, RoleUserArn, NA}

\* the classification with the user test first
ClassifyUserFirst(arn) ==
  IF Contains(arn, <<"user">>)
    THEN [user_name |-> LastComponent(arn), credential_type |-> "User"]
  ELSE IF Contains(arn, <<"assumed-role">>)
    THEN [user_name |-> LastComponent(arn), credential_type |-> "Role"]
  ELSE [user_name |-> NA, credential_type |-> "Unknown"]

\* lines 22-30
Classify(arn) ==
  IF Contains(arn, <<"assumed-role">>)
    THEN [user_name |-> LastComponent(arn), credential_type |-> "Role"]
  ELSE IF Contains(arn, <<"user">>)
    THEN [user_name |-> LastComponent(arn), credential_type |-> "User"]
  ELSE [user_name |-> NA, credential_type |-> "Unknown"]

ExpiredCodesOne == {"ExpiredToken"}

\* line 52
ExpiredCodes == {"ExpiredToken", "InvalidClientTokenId"}

\* codes the identity check fails with
ErrorCodes == {"ExpiredToken", "InvalidClientTokenId", "AccessDenied"}

\* line 97: str(e)[:30]
MsgLimit == 30
Take(s, n) == SubSeq(s, 1, IF Len(s) < n THEN Len(s) ELSE n)

\* exception messages of 3, 30 and 35 characters
Messages == {<<"e", "r", "r">>, [i \in 1..30 |-> "m"], [i \in 1..35 |-> IF i <= 30 THEN "a" ELSE "z"]}

\* lines 53-63, 65-75, 78-88, 91-101: the record of a failed probe
FailedInfo(p, status, expires_in) ==
  [profile |-> p, account_id |-> NA, user_name |-> NA, credential_type |-> "N/A",
   arn |-> NA, status |-> status, credential_age |-> NA,
   expires_in |-> expires_in, expiration_date |-> NA]

\* what the session, the identity check and the helpers of one probe do
ProbeOutcome(kind, arn, code, msg, session, age) ==
  [kind |-> kind, arn |-> arn, code |-> code, msg |-> msg, session |-> session, age |-> age]

ProbeOutcomes ==
  {ProbeOutcome("ok", a, "", <<>>, t, g) :
     a \in ProbeArns, t \in SessionOutcomes, g \in AgeOutcomes \ {"exists_raises"}}
  \cup {ProbeOutcome("ok", a, "", m, "permanent", "exists_raises") :
          a \in ProbeArns, m \in Messages}
  \cup {ProbeOutcome("ClientError", NA, c, <<>>, "permanent", "ok") : c \in ErrorCodes}
  \cup {ProbeOutcome(k, NA, "", <<>>, "permanent", "ok") :
          k \in {"NoCredentialsError", "ProfileNotFound"}}
  \cup {ProbeOutcome("Exception", NA, "", m, "permanent", "ok") : m \in Messages}

\* lines 9-101
get_account_info(p, o) ==
  IF o.kind = "ClientError"
    THEN IF o.code \in ExpiredCodes
           THEN FailedInfo(p, <<"Expired">>, <<"Expired">>)
           ELSE FailedInfo(p, <<"Error: ", o.code>>, NA)
  ELSE IF o.kind \in {"NoCredentialsError", "ProfileNotFound"}
    THEN FailedInfo(p, <<"No Credentials">>, NA)
  ELSE IF o.kind = "Exception" \/ get_credential_age(p, o.age).raised
    THEN FailedInfo(p, <<"Error: ">> \o Take(o.msg, MsgLimit), NA)
  ELSE LET c == Classify(o.arn)
           e == get_credential_expiration(o.session)
       IN  [profile |-> p, account_id |-> <<"1">>, user_name |-> c.user_name,
            credential_type |-> c.credential_type, arn |-> o.arn,
            status |-> <<"Active">>,
            credential_age |-> get_credential_age(p, o.age).value,
            expires_in |-> e.expires_in, expiration_date |-> e.expiration_date]

\* the credentials file before a probe
InitProbe ==
  /\ credExists \in BOOLEAN
  /\ IF credExists
       THEN \E S \in SUBSET Profiles : credFile = [q \in S |-> Section(KeyId(1), 1)]
       ELSE credFile = <<>>
  /\ backups = {}
  /\ remoteKeys = [pr \in Principals |-> {}]
  /\ nextKey = Cardinality(InitKeyNums) + 1
  /\ clock = 0
  /\ InitRun
  /\ configFile = NoConfig
  /\ InitCalls

\* one whole call of get_account_info
ProbeCall ==
  /\ \E p \in Profiles, o \in ProbeOutcomes :
       /\ call' = [fn |-> "get_account_info", profile |-> p, outcome |-> o]
       /\ ret' = [raised |-> FALSE, value |-> get_account_info(p, o)]
  /\ UNCHANGED <<env, clock, pc, profile_name, delete_old, locals, result, returned_at,
                 log, raced, runs, externals, last_error, configFile, calls>>

NextProbe ==
  \/ ProbeCall
  \/ ExternalRemoveSection

SpecProbe == InitProbe /\ [][NextProbe]_vars

\* -------------------------------------------------------------- profiles.py
\* ~/.aws/config: a section is named 'profile <name>' or '<name>' and holds
\* options; the options of [DEFAULT] count as options of every section
Prefixed(p) == <<"profile ", p>>
Bare(p) == <<p>>
OptionChoices == {{"region"}, {"sso_start_url", "region"}, {"sso_session"}}
ConfigSectionNames == {Prefixed("dev"), Bare("dev"), Prefixed("prod")}
ConfigChoices ==
  {NoConfig, [state |-> "malformed", sections |-> [n \in {} |-> {}], defaults |-> {}]}
  \cup {[state |-> "present", sections |-> secs, defaults |-> d] :
          secs \in UNION {[S -> OptionChoices] : S \in SUBSET ConfigSectionNames},
          d \in {{}, {"sso_session"}}}

SsoKeysOne == {"sso_start_url"}

\* line 47
SsoKeys == {"sso_start_url", "sso_session"}

\* `key in config[section_name]`
HasOption(section_name, key) ==
  key \in configFile.sections[section_name] \/ key \in configFile.defaults

\* lines 32-53
is_sso_profile(p) ==
  IF configFile.state = "absent" THEN FALSE
  ELSE IF configFile.state = "malformed" THEN FALSE
  ELSE LET sections == DOMAIN configFile.sections
           section_name == IF Prefixed(p) \in sections THEN Prefixed(p) ELSE Bare(p)
       IN  IF section_name \in sections
             THEN \E key \in SsoKeys : HasOption(section_name, key)
             ELSE FALSE

\* the config file before is_sso_profile is called
InitProfiles ==
  /\ credExists \in BOOLEAN
  /\ IF credExists
       THEN \E S \in SUBSET Profiles : credFile \in [S -> SectionChoices]
       ELSE credFile = <<>>
  /\ backups = {}
  /\ remoteKeys = [pr \in Principals |-> {}]
  /\ nextKey = Cardinality(InitKeyNums) + 1
  /\ clock = 0
  /\ InitRun
  /\ configFile \in ConfigChoices
  /\ InitCalls

\* one whole call of is_sso_profile
IsSsoCall ==
  /\ \E p \in Profiles :
       /\ call' = [fn |-> "is_sso_profile", profile |-> p]
       /\ ret' = [raised |-> FALSE, value |-> is_sso_profile(p)]
  /\ UNCHANGED <<env, clock, pc, profile_name, delete_old, locals, result, returned_at,
                 log, raced, runs, externals, last_error, configFile, calls>>

KeyReadOutcomes == {"ok", "parse_raises"}

\* the stored key id returned although the file did not parse
CurrentKeyReadUnparsed(p, o) == get_current_access_key_id(p)

\* profiles.py lines 56-72 on a credentials file that parses or not
CurrentKeyRead(p, o) ==
  IF credExists /\ o = "parse_raises" THEN None ELSE get_current_access_key_id(p)

\* one whole call of get_current_access_key_id
GetKeyCall ==
  /\ \E p \in Profiles, o \in KeyReadOutcomes :
       /\ call' = [fn |-> "get_current_access_key_id", profile |-> p, outcome |-> o]
       /\ ret' = [raised |-> FALSE, value |-> CurrentKeyRead(p, o)]
  /\ UNCHANGED <<env, clock, pc, profile_name, delete_old, locals, result, returned_at,
                 log, raced, runs, externals, last_error, configFile, calls>>

NextProfiles ==
  \/ IsSsoCall
  \/ GetKeyCall
  \/ Tick

SpecProfiles == InitProfiles /\ [][NextProfiles]_vars

\* ------------------------------------------------- refresh.py, the dispatcher
SsoOutcomes == {"exit0", "exit1", "cli_missing", "raises"}

\* lines 28-32: the commands refresh_sso_profile launches, one subprocess.run
SsoLaunches(p, o) == <<<<"aws", "sso", "login", "--profile", p>>>>

\* a result that reports success whatever the login did
SsoAlwaysOk(p, o) ==
  [success |-> TRUE, message |-> [text |-> "SSO login successful", profile |-> p]]

\* lines 13-54: `aws sso login --profile <name>` and the result made of it
refresh_sso_profile(p, o) ==
  CASE o = "exit0" ->
         [success |-> TRUE, message |-> [text |-> "SSO login successful", profile |-> p]]
    [] o = "exit1" ->
         [success |-> FALSE, message |-> [text |-> "SSO login failed with exit code", code |-> 1]]
    [] o = "cli_missing" ->
         [success |-> FALSE, message |-> [text |-> "AWS CLI not found"]]
    [] o = "raises" ->
         [success |-> FALSE, message |-> [text |-> "Error during SSO login"]]

\* the arguments without the caller's flag
IamArgsNoFlag(p, d) == <<p, FALSE>>

\* line 196: the arguments of refresh_iam_user_credentials
IamArgs(p, d) == <<p, d>>

\* lines 181-196: the body of refresh_credentials(p, d); it asks
\* is_sso_profile and either runs refresh_sso_profile (with outcome o) to its
\* end or enters refresh_iam_user_credentials
RefreshCredentials(p, d, o) ==
  IF is_sso_profile(p)
    THEN /\ pc \in {"idle", "done"}
         /\ runs < MaxRuns
         /\ runs' = runs + 1
         /\ calls' = <<[fn |-> "refresh_sso_profile", args |-> <<p>>,
                         outcome |-> o, launched |-> SsoLaunches(p, o)]>>
         /\ Return(refresh_sso_profile(p, o), "sso")
         /\ profile_name' = p /\ delete_old' = d
         /\ user_arn' = None /\ username' = None /\ old_access_key_id' = None
         /\ current_keys' = NotListed
         /\ backup_result' = NoResult
         /\ new_access_key_id' = None
         /\ log' = <<>>
         /\ raced' = FALSE
         /\ last_error' = NoError
         /\ UNCHANGED <<env, clock, externals>>
    ELSE /\ calls' = <<[fn |-> "refresh_iam_user_credentials", args |-> IamArgs(p, d)]>>
         /\ Start(IamArgs(p, d)[1], IamArgs(p, d)[2])

\* refresh_credentials(profile_name, delete_old) is called on its own
Dispatch ==
  /\ call = NoCall \/ ret # NoRet
  /\ \E p \in Profiles, d \in BOOLEAN, o \in SsoOutcomes :
       /\ RefreshCredentials(p, d, o)
       /\ call' = [fn |-> "refresh_credentials", profile |-> p, delete_old |-> d,
                   sso |-> is_sso_profile(p), remote |-> remoteKeys, next |-> nextKey,
                   cred |-> credFile]
  /\ ret' = NoRet
  /\ UNCHANGED configFile

\* lines 194, 196: the callee's result is returned
DispatchReturn ==
  /\ pc = "done"
  /\ call # NoCall /\ ret = NoRet
  /\ ret' = [raised |-> FALSE, value |-> result]
  /\ UNCHANGED <<env, clock, pc, profile_name, delete_old, locals, result, returned_at,
                 log, raced, runs, externals, last_error, configFile, call, calls>>

\* the files and the remote service before refresh_credentials is called
InitDispatch ==
  /\ credExists = TRUE
  /\ credFile = [q \in Profiles |-> IF q = "dev" THEN Section(KeyId(1), 1)
                                                 ELSE Section(KeyId(3), 3)]
  /\ backups = {}
  /\ remoteKeys \in InitRemote
  /\ nextKey = Cardinality(InitKeyNums) + 1
  /\ clock = 0
  /\ InitRun
  /\ configFile \in {c \in ConfigChoices :
                       c.defaults = {} /\ Prefixed("prod") \notin DOMAIN c.sections}
  /\ InitCalls

NextDispatch ==
  \/ Dispatch
  \/ GetCallerIdentity
  \/ GetCurrentKey
  \/ ListAccessKeys
  \/ BackupStep
  \/ CreateAccessKey
  \/ RewriteCredentials
  \/ DeleteOrKeep
  \/ DispatchReturn

SpecDispatch == InitDispatch /\ [][NextDispatch]_vars

\* ------------------------------------------- profiles.py, get_aws_profiles
\* a section of the config file named 'profile team profile dev'
TeamSection == <<"profile ", "team ", "profile ", "dev">>
ListingSectionNames == {Prefixed("dev"), Bare("dev"), Prefixed("prod"), Bare("zeta"), TeamSection}

\* every profile name a listing can hold, in Python's string order
NameOrder ==
  <<<<"dev">>, <<"prod">>, <<"profile ", "dev">>, <<"profile ", "prod">>,
    <<"profile ", "team ", "profile ", "dev">>, <<"team ", "dev">>,
    <<"team ", "profile ", "dev">>, <<"zeta">>>>

\* sorted(list(profiles))
Sorted(S) == SelectSeq(NameOrder, LAMBDA n : n \in S)

\* lines 24-27: section.replace('profile ', '') when section.startswith('profile ')
FoldSection(section) ==
  IF Len(section) > 0 /\ section[1] = "profile "
    THEN SelectSeq(section, LAMBDA x : x # "profile ")
    ELSE section

\* lines 7-29
get_aws_profiles ==
  LET creds == IF credExists THEN {<<q>> : q \in DOMAIN credFile} ELSE {}
      conf == IF configFile.state = "present"
                THEN {FoldSection(sec) : sec \in DOMAIN configFile.sections}
                ELSE {}
  IN  Sorted(creds \cup conf)

\* the two files before get_aws_profiles is called
InitListing ==
  /\ credExists \in BOOLEAN
  /\ IF credExists
       THEN \E S \in SUBSET Profiles : credFile = [q \in S |-> Section(KeyId(1), 1)]
       ELSE credFile = <<>>
  /\ backups = {}
  /\ remoteKeys = [pr \in Principals |-> {}]
  /\ nextKey = Cardinality(InitKeyNums) + 1
  /\ clock = 0
  /\ InitRun
  /\ configFile \in {NoConfig} \cup
       {[state |-> "present", sections |-> [n \in S |-> {"region"}], defaults |-> {}] :
          S \in SUBSET ListingSectionNames}
  /\ InitCalls

\* one whole call of get_aws_profiles
ListCall ==
  /\ call' = [fn |-> "get_aws_profiles"]
  /\ ret' = [raised |-> FALSE, value |-> get_aws_profiles]
  /\ UNCHANGED <<env, clock, pc, profile_name, delete_old, locals, result, returned_at,
                 log, raced, runs, externals, last_error, configFile, calls>>

NextListing ==
  \/ ListCall
  \/ Tick

SpecListing == InitListing /\ [][NextListing]_vars

\* ------------------------------------------ credentials.py on its own
NextAge ==
  \/ AgeCall
  \/ ExpirationCall
  \/ ExternalRemoveSection

SpecAge == InitProbe /\ [][NextAge]_vars

\* ------------------------------------------------------------------ cli.py
\* what the operator types at the prompt, character by character
YesText == <<"y", "e", "s">>
Inputs ==
  {YesText, <<" ", "Y", "E", "S", " ">>, <<"Y", "e", "s">>, <<"y">>, <<>>, <<"n", "o">>,
   <<"y", "e", "s", " ", "n", "o">>}

\* str.lower on the characters of Inputs
LowerChar(c) ==
  CASE c = "Y" -> "y" [] c = "E" -> "e" [] c = "S" -> "s" [] OTHER -> c
Lower(s) == [i \in 1..Len(s) |-> LowerChar(s[i])]

\* str.strip
Strip(s) ==
  LET keep == {i \in 1..Len(s) : s[i] # " "}
  IN  IF keep = {} THEN <<>>
      ELSE SubSeq(s, CHOOSE i \in keep : \A j \in keep : i <= j,
                     CHOOSE i \in keep : \A j \in keep : j <= i)

\* a test that accepts every answer that starts with y
ConfirmedByPrefix(input) ==
  Len(Lower(Strip(input))) > 0 /\ Lower(Strip(input))[1] = "y"

\* lines 101-102, 177-179: input(...).strip().lower() compared with 'yes'
Confirmed(input) == Lower(Strip(input)) = YesText

\* checker.py lines 9-31 on files whose profile names are single words
CliProfiles == [i \in 1..Len(get_aws_profiles) |-> get_aws_profiles[i][1]]

\* what the identity check of the probe yields for profile p: for an SSO
\* profile the role of the cached SSO session or its expiry, otherwise what
\* the stored key authenticates
CliProbeOutcomes(p) ==
  IF is_sso_profile(p)
    THEN {[kind |-> "ok", code |-> "", arn |-> ArnOf("role")],
          [kind |-> "ClientError", code |-> "ExpiredToken", arn |-> None]}
    ELSE IdentityOutcomes(p)

\* checker.py lines 34-110: status and credential type of a probe
CheckerInfo(p, o) ==
  IF o.kind = "ok"
    THEN [profile |-> p, credential_type |-> Classify(o.arn).credential_type,
          status |-> <<"Active">>]
  ELSE IF o.kind = "ClientError"
    THEN [profile |-> p, credential_type |-> "N/A",
          status |-> IF o.code \in ExpiredCodes THEN <<"Expired">> ELSE <<"Error: ", o.code>>]
  ELSE [profile |-> p, credential_type |-> "N/A", status |-> <<"Error: ">>]

\* lines 147-157: the profiles the analysis puts into a list
SsoList(profiles, probes) ==
  SelectSeq(profiles, LAMBDA p : /\ CheckerInfo(p, probes[p]).status = <<"Active">>
                                  /\ is_sso_profile(p))
IamList(profiles, probes) ==
  SelectSeq(profiles, LAMBDA p : /\ CheckerInfo(p, probes[p]).status = <<"Active">>
                                  /\ ~is_sso_profile(p)
                                  /\ CheckerInfo(p, probes[p]).credential_type = "User")

\* lines 186-215: the refresh_credentials calls in order, IAM users with the
\* caller's flag and then SSO profiles with delete_old=False
Plan(profiles, probes, d) ==
  LET iam == IamList(profiles, probes)
      sso == SsoList(profiles, probes)
  IN  [i \in 1..Len(iam) |-> <<iam[i], d>>] \o [i \in 1..Len(sso) |-> <<sso[i], FALSE>>]

\* the files and the keys as a command finds them
FilesNow == [credExists |-> credExists, credFile |-> credFile, backups |-> backups,
             remoteKeys |-> remoteKeys]

CliCall(fn, d, asked, input, queue, more) ==
  [fn |-> fn, delete_old |-> d, asked |-> asked, input |-> input, queue |-> queue,
   started |-> <<>>, awaiting |-> FALSE, fail_count |-> 0, before |-> FilesNow,
   more |-> more]

\* lines 124-181: refresh_all_profiles(delete_old) up to the end of the
\* confirmation; it returns 1 or goes on to the refresh loops
RefreshAllCall ==
  /\ call = NoCall
  /\ \E d \in BOOLEAN, input \in Inputs :
       LET profiles == CliProfiles
       IN  \E probes \in [{profiles[i] : i \in 1..Len(profiles)} ->
                            UNION {CliProbeOutcomes(p) : p \in Profiles}] :
             /\ \A p \in DOMAIN probes : probes[p] \in CliProbeOutcomes(p)
             /\ LET plan == Plan(profiles, probes, d)
                    more == [profiles |-> profiles, probes |-> probes,
                             sso |-> {p \in DOMAIN probes : is_sso_profile(p)}]
                IN  IF Len(profiles) = 0 \/ Len(plan) = 0
                      THEN /\ call' = CliCall("refresh_all_profiles", d, FALSE, <<>>, <<>>, more)
                           /\ ret' = [raised |-> FALSE, value |-> 1]
                    ELSE IF ~Confirmed(input)
                      THEN /\ call' = CliCall("refresh_all_profiles", d, TRUE, input, <<>>, more)
                           /\ ret' = [raised |-> FALSE, value |-> 1]
                    ELSE /\ call' = CliCall("refresh_all_profiles", d, TRUE, input, plan, more)
                         /\ ret' = NoRet
  /\ UNCHANGED <<env, clock, pc, profile_name, delete_old, locals, result, returned_at,
                 log, raced, runs, externals, last_error, configFile, calls>>

\* lines 86-108: refresh_profile(profile_name, delete_old) up to the end of
\* the confirmation
RefreshProfileCall ==
  /\ call = NoCall
  /\ \E p \in Profiles, d \in BOOLEAN, input \in Inputs :
       LET more == [profiles |-> <<p>>, sso |-> {q \in {p} : is_sso_profile(q)}]
           asked == ~is_sso_profile(p) /\ d
       IN  IF asked /\ ~Confirmed(input)
             THEN /\ call' = CliCall("refresh_profile", d, TRUE, input, <<>>, more)
                  /\ ret' = [raised |-> FALSE, value |-> 1]
             ELSE /\ call' = CliCall("refresh_profile", d, asked,
                                     IF asked THEN input ELSE <<>>, <<<<p, d>>>>, more)
                  /\ ret' = NoRet
  /\ UNCHANGED <<env, clock, pc, profile_name, delete_old, locals, result, returned_at,
                 log, raced, runs, externals, last_error, configFile, calls>>

CliRunning == call # NoCall /\ ret = NoRet

\* lines 110, 194, 208: the next refresh_credentials call of the command
CliRefresh ==
  /\ CliRunning
  /\ ~call.awaiting
  /\ call.queue # <<>>
  /\ \E o \in SsoOutcomes :
       RefreshCredentials(Head(call.queue)[1], Head(call.queue)[2], o)
  /\ call' = [call EXCEPT !.queue = Tail(@), !.started = Append(@, Head(call.queue)),
                          !.awaiting = TRUE]
  /\ UNCHANGED <<ret, configFile>>

\* lines 112-121, 195-200, 209-214: the result of the call is counted
CliCollect ==
  /\ CliRunning
  /\ call.awaiting
  /\ pc = "done"
  /\ call' = [call EXCEPT !.awaiting = FALSE,
                          !.fail_count = @ + (IF result.success THEN 0 ELSE 1)]
  /\ UNCHANGED <<env, clock, pc, profile_name, delete_old, locals, result, returned_at,
                 log, raced, runs, externals, last_error, configFile, ret, calls>>

\* lines 116, 121, 221: 0 when no refresh failed, else 1
CliReturn ==
  /\ CliRunning
  /\ ~call.awaiting
  /\ call.queue = <<>>
  /\ ret' = [raised |-> FALSE, value |-> IF call.fail_count = 0 THEN 0 ELSE 1]
  /\ UNCHANGED <<env, clock, pc, profile_name, delete_old, locals, result, returned_at,
                 log, raced, runs, externals, last_error, configFile, call, calls>>

\* the files and the remote service before a command runs
InitCli ==
  /\ credExists = TRUE
  /\ credFile \in {[q \in Profiles |-> IF q = "dev" THEN Section(KeyId(1), 1)
                                                    ELSE Section(KeyId(n), n)] : n \in {2, 3}}
  /\ backups = {}
  /\ remoteKeys \in InitRemote
  /\ nextKey = Cardinality(InitKeyNums) + 1
  /\ clock = 0
  /\ InitRun
  /\ configFile \in {c \in ConfigChoices :
                       c.defaults = {} /\ Prefixed("prod") \notin DOMAIN c.sections}
  /\ InitCalls

NextCli ==
  \/ RefreshAllCall
  \/ RefreshProfileCall
  \/ CliRefresh
  \/ GetCallerIdentity
  \/ GetCurrentKey
  \/ ListAccessKeys
  \/ BackupStep
  \/ CreateAccessKey
  \/ RewriteCredentials
  \/ DeleteOrKeep
  \/ CliCollect
  \/ CliReturn

SpecCli == InitCli /\ [][NextCli]_vars

\* ================================================================ claims
Did(op) == \E i \in 1..Len(log) : log[i].op = op
Calls(op) == {i \in 1..Len(log) : log[i].op = op}
Listed == current_keys # NotListed
Done == pc = "done"
NotFoundText == "not found in credentials file"

\* C1: a run that lists 2 or more remote keys for the user has returned
\* success=false with the 'already has 2 access keys' message and has made no
\* backup write, no remote create, no credentials-file write and no remote
\* delete, whatever the delete flag.
C1_RotationGuard ==
  (Listed /\ Cardinality(current_keys) >= 2) =>
     /\ Done
     /\ result.success = FALSE
     /\ result.message.text = "already has 2 access keys"
     /\ log = <<>>

C1_Witness ==
  /\ Done /\ Listed /\ Cardinality(current_keys) >= 2
  /\ delete_old
  /\ result.message.text = "already has 2 access keys"

\* C2: when the identity check yields an ARN that contains 'assumed-role' or
\* lacks ':user/', the run has returned success=false with the 'not an IAM
\* user' message; no key id was looked up, no key list read, and no backup,
\* create, write or delete was made.
C2_NonUserPrincipal ==
  (user_arn # None /\ (Contains(user_arn, <<"assumed-role">>)
                        \/ ~Contains(user_arn, <<":", "user", "/">>))) =>
     /\ Done
     /\ result.success = FALSE
     /\ result.message.text = "is not an IAM user"
     /\ old_access_key_id = None
     /\ ~Listed
     /\ log = <<>>

C2_Witness ==
  /\ Done
  /\ user_arn = ArnOf("root")
  /\ result.message.text = "is not an IAM user"

\* C3: each step is a hard gate.  A run that returned at one of steps 1-7
\* returned success=false and made no mutation of a later step; a run is
\* past a step only if that step's gate passed; and each mutation was made
\* only after the mutation of the step before it.
StepNo(at) ==
  CASE at = "exists" -> 0
    [] at = "identity" -> 1
    [] at = "keyid" -> 3
    [] at = "list" -> 4
    [] at = "backup" -> 5
    [] at = "create" -> 6
    [] at = "rewrite" -> 7
    [] at = "end" -> 9
OpStep(op) ==
  CASE op = "backup_write" -> 5
    [] op = "create" -> 6
    [] op = "file_write" -> 7
    [] op = "delete" -> 8
Position == IF Done THEN returned_at ELSE pc

C3_HardGates ==
  /\ (Done /\ returned_at # "end") =>
        /\ result.success = FALSE
        /\ \A i \in 1..Len(log) : OpStep(log[i].op) <= StepNo(returned_at)
        /\ returned_at = "create" => ~Did("create")
        /\ returned_at = "rewrite" => ~Did("file_write")
  /\ (Done /\ result.success = FALSE) => returned_at # "end"
  /\ Position \in {"list", "backup", "create", "rewrite", "delete", "end"} =>
        /\ old_access_key_id \notin {None, EmptyStr}
        /\ ~Contains(user_arn, <<"assumed-role">>)
        /\ Contains(user_arn, <<":", "user", "/">>)
  /\ Position \in {"backup", "create", "rewrite", "delete", "end"} =>
        Listed /\ Cardinality(current_keys) < 2
  /\ Position \in {"create", "rewrite", "delete", "end"} => backup_result.success
  /\ Position \in {"rewrite", "delete", "end"} => Did("create")
  /\ Position \in {"delete", "end"} => Did("file_write")
  /\ Did("backup_write") => Position \in {"backup", "create", "rewrite", "delete", "end"}
  /\ Did("create") => Position \in {"rewrite", "delete", "end"}
  /\ Did("file_write") => Position \in {"delete", "end"}
  /\ Did("delete") => Position = "end"

C3_Witness ==
  /\ Done /\ returned_at = "create"
  /\ result.message.text = "AWS Error"
  /\ Did("backup_write")

\* C4: the remote create and the credentials-file rewrite happen only after
\* backup_credentials returned success in the same run (the backup write is
\* the run's first mutation and its file exists); when the backup reports
\* failure the run has returned the backup's own result and neither created
\* a key nor written the credentials file.
C4_BackupBeforeMutate ==
  /\ (Did("create") \/ Did("file_write")) =>
        /\ backup_result.success
        /\ log[1].op = "backup_write"
        /\ \E b \in backups : b.name = backup_result.backup_file
  /\ (backup_result # NoResult /\ ~backup_result.success) =>
        /\ Done
        /\ result = backup_result
        /\ ~Did("create") /\ ~Did("file_write")

C4_Witness ==
  /\ Done
  /\ backup_result # NoResult /\ ~backup_result.success
  /\ result.message.text = "Failed to create backup"

\* C5: a run with delete_old=false on a user with exactly 1 remote key in
\* which every step succeeded returned success=true; it wrote the new key id
\* and its secret into the profile's section (which holds them while the
\* section is there), the new id differs from the old, no remote delete was
\* called, the old key is still live and the message says 'still active'.
C5_SuccessNoDelete ==
  (Done /\ returned_at = "end" /\ ~delete_old /\ Listed /\ Cardinality(current_keys) = 1) =>
     /\ result.success = TRUE
     /\ new_access_key_id # old_access_key_id
     /\ \E i \in Calls("file_write") : log[i].key = new_access_key_id
     /\ profile_name \in DOMAIN credFile =>
          /\ GetField(credFile[profile_name], "aws_access_key_id") = new_access_key_id
          /\ GetField(credFile[profile_name], "aws_secret_access_key")
               = SecretOf(KeyNum(new_access_key_id))
     /\ ~Did("delete")
     /\ KeyNum(old_access_key_id) \in remoteKeys[UserNamed(username)]
     /\ KeyNum(new_access_key_id) \in remoteKeys[UserNamed(username)]
     /\ result.message.old.text = "is still active in AWS"
     /\ result.message.new_key = new_access_key_id

C5_Witness ==
  /\ Done /\ returned_at = "end" /\ ~delete_old /\ Listed /\ Cardinality(current_keys) = 1
  /\ profile_name \in DOMAIN credFile
  /\ result.success

\* C6: with delete_old=true a run that wrote the new key locally ends with
\* exactly one remote delete call, made last and for the old key id read at
\* step 3; when it succeeds the message reports the old key deleted, when it
\* raises the run still returns success=true with a warning; either way the
\* new key stays live and stays in the credentials file.
C6_BestEffortDelete ==
  /\ (Done /\ Did("file_write")) => returned_at = "end"
  /\ (Done /\ returned_at = "end" /\ delete_old) =>
        /\ result.success = TRUE
        /\ Cardinality(Calls("delete")) = 1
        /\ log[Len(log)].op = "delete"
        /\ log[Len(log)].key = old_access_key_id
        /\ log[Len(log)].ok =>
             /\ result.message.old.text = "deleted from AWS"
             /\ KeyNum(old_access_key_id) \notin remoteKeys[UserNamed(username)]
        /\ ~log[Len(log)].ok =>
             result.message.old.text = "Warning: Could not delete old key"
        /\ KeyNum(new_access_key_id) \in remoteKeys[UserNamed(username)]
        /\ profile_name \in DOMAIN credFile =>
             GetField(credFile[profile_name], "aws_access_key_id") = new_access_key_id

C6_Witness ==
  /\ Done /\ returned_at = "end" /\ delete_old
  /\ ~log[Len(log)].ok
  /\ result.success
  /\ profile_name \in DOMAIN credFile

\* C7: no IAM user ever has more than 2 remote access keys, over any
\* sequence of rotations, and a run has called create-access-key only when
\* the key list it read had fewer than 2 entries.
C7_KeyCeiling ==
  /\ \A pr \in Principals : Cardinality(remoteKeys[pr]) <= 2
  /\ Did("create") => (Listed /\ Cardinality(current_keys) < 2)

C7_Witness ==
  /\ runs = MaxRuns
  /\ Did("create")
  /\ Cardinality(remoteKeys["alice"]) = 2

\* C8: a run that returned after create-access-key succeeded without
\* recording the new key in the credentials file reports the new key in its
\* message.
C8_PartialVisible ==
  (Done /\ Did("create") /\ ~Did("file_write")) =>
     /\ "new_key" \in DOMAIN result.message
     /\ result.message.new_key = new_access_key_id

\* C9: no step of a run adds or removes a section of the credentials file
\* or removes the file; sections other than the target's keep their fields,
\* and in the target's section only aws_access_key_id and
\* aws_secret_access_key may differ; an absent target section is not created.
RunStep == externals' = externals
C10_RemovalRaceOriginal ==
  (Done /\ raced) =>
     /\ result.success = FALSE
     /\ result.message.text = NotFoundText
     /\ ~Did("file_write")
     /\ ~Did("delete")
     /\ profile_name \notin DOMAIN credFile

\* C10 amended: in that race the run returns success=false, writes nothing,
\* does not re-create the section and issues no remote delete; its message is
\* 'not found in credentials file' once the run reaches the backup's section
\* check or the rewrite's re-check, and otherwise the message of the step
\* that failed first (key listing, 2-key guard, backup I/O, key creation).
C10_RemovalRace ==
  (Done /\ raced) =>
     /\ result.success = FALSE
     /\ ~Did("file_write")
     /\ ~Did("delete")
     /\ profile_name \notin DOMAIN credFile
     /\ returned_at \in {"list", "backup", "create", "rewrite"}
     /\ returned_at = "rewrite" => result.message.text = NotFoundText
     /\ (returned_at = "backup" /\ backup_result # NoResult
           /\ backup_result.message.text # "Failed to create backup")
          => result.message.text = NotFoundText
     /\ result.message.text # NotFoundText =>
          result.message.text \in {"AWS Error", "Error", "already has 2 access keys",
                                   "Failed to create backup"}

C10_Witness ==
  /\ Done /\ raced /\ delete_old
  /\ returned_at = "rewrite"
  /\ Did("create")
  /\ result.message.text = NotFoundText


LastCall == calls[Len(calls)]
Called == Len(calls) > 0

\* C11: backup_credentials never raises to its caller: every invocation
\* returns a result, and every internal failure (the backups directory
\* cannot be created or written among them) is a returned failure whose
\* message begins 'Failed to create backup'
C11_NeverRaises ==
  \A i \in 1..Len(calls) :
     /\ ~calls[i].raised
     /\ calls[i].outcome \in {"mkdir_raises", "read_raises"} =>
          /\ calls[i].result.success = FALSE
          /\ calls[i].result.message.text = "Failed to create backup"

\* C15: when the named section is not in the credentials file (the file
\* itself being readable), backup_credentials returns success=false with a
\* message saying the profile was not found and naming it, writes no backup
\* file, and does not raise
C15_AbsentProfile ==
  \A i \in 1..Len(calls) :
     (calls[i].profile \notin DOMAIN calls[i].before /\ calls[i].outcome # "read_raises") =>
        /\ ~calls[i].raised
        /\ ~calls[i].wrote
        /\ calls[i].result.success = FALSE
        /\ calls[i].result.message.text = "not found in credentials file"
        /\ calls[i].result.message.profile = calls[i].profile

FilesAt(name) == {b \in backups : b.name = name}
OnlySection(p, sec) == [q \in {p} |-> sec]

\* C13: a successful backup_credentials(profile, key) leaves one file whose
\* parsed content has exactly one section, named the profile, with the fields
\* of the live section at the time of the call; the file is named
\* credentials_backup_<profile>_<last 8 of key>_<time of the call>, its mode
\* is 0600, and the live credentials file is unchanged
C13_RoundTrip ==
  (Called /\ LastCall.result.success) =>
     LET c == LastCall
     IN  /\ c.profile \in DOMAIN c.before
         /\ c.result.backup_file =
              <<"credentials_backup", c.profile, <<c.key[Len(c.key)]>>, c.at>>
         /\ Cardinality(FilesAt(c.result.backup_file)) = 1
         /\ \A b \in FilesAt(c.result.backup_file) :
              /\ ParseOK(b.content)
              /\ ConfigRead(b.content) = OnlySection(c.profile, c.before[c.profile])
              /\ b.mode = "0600"
         /\ c.after = c.before
         /\ credFile = c.before

C13_Witness ==
  /\ Called /\ LastCall.result.success
  /\ DOMAIN LastCall.before = Profiles
  /\ LastCall.before["dev"] # LastCall.before["prod"]
  /\ FilesAt(LastCall.result.backup_file) # {}

\* C14: two calls of backup_credentials for the same profile and key within
\* one second, the file system failing neither, both return success with the
\* same path, and after the second the file at that path parses to the
\* single section of the profile
C14_SameSecond ==
  Len(calls) >= 2 =>
     LET c1 == calls[Len(calls) - 1]
         c2 == LastCall
     IN  (/\ c1.profile = c2.profile /\ c1.key = c2.key /\ c1.at = c2.at
          /\ c1.outcome = "ok" /\ c2.outcome = "ok"
          /\ c2.profile \in DOMAIN c2.before) =>
            /\ c1.result.success /\ c2.result.success
            /\ c1.result.backup_file = c2.result.backup_file
            /\ Cardinality(FilesAt(c2.result.backup_file)) = 1
            /\ \A b \in FilesAt(c2.result.backup_file) :
                 /\ ParseOK(b.content)
                 /\ DOMAIN ConfigRead(b.content) = {c2.profile}
                 /\ ConfigRead(b.content)[c2.profile] = c2.before[c2.profile]

C14_Witness ==
  /\ Len(calls) = 2
  /\ calls[1].profile = calls[2].profile /\ calls[1].key = calls[2].key
  /\ calls[1].at = calls[2].at
  /\ calls[1].result.success /\ calls[2].result.success
  /\ FilesAt(calls[2].result.backup_file) # {}

\* ---- SpecProbe ----
Probed == call.fn = "get_account_info"
HasSegment(arn, seg) == \E i \in 1..Len(arn) : arn[i] = seg
IsFinalComponent(name, arn) ==
  \E i \in 0..Len(arn) :
     /\ i > 0 => arn[i] = "/"
     /\ \A j \in (i + 1)..Len(arn) : arn[j] # "/"
     /\ name = SubSeq(arn, i + 1, Len(arn))
First30(m) == [i \in 1..(IF Len(m) < 30 THEN Len(m) ELSE 30) |-> m[i]]

\* C16: get_account_info returns a record for every outcome of the identity
\* check and never raises; the status is 'Active' on success, 'Expired' (with
\* expires_in 'Expired' and every other field 'N/A') for the codes
\* ExpiredToken and InvalidClientTokenId, 'Error: <code>' for another remote
\* code, 'No Credentials' without credentials or profile, and 'Error: <first
\* 30 characters of the message>' for any other failure, a failure of the age
\* helper after a successful identity check included
C16_ProbeTotal ==
  Probed =>
    LET o == call.outcome
        r == ret.value
        helper_fails == o.age = "exists_raises"
    IN  /\ ~ret.raised
        /\ r.profile = call.profile
        /\ (o.kind = "ok" /\ ~helper_fails) => r.status = <<"Active">>
        /\ (o.kind = "ClientError" /\ o.code \in {"ExpiredToken", "InvalidClientTokenId"}) =>
              /\ r.status = <<"Expired">> /\ r.expires_in = <<"Expired">>
              /\ r.account_id = NA /\ r.user_name = NA /\ r.credential_type = "N/A"
              /\ r.arn = NA /\ r.credential_age = NA /\ r.expiration_date = NA
        /\ (o.kind = "ClientError" /\ o.code \notin {"ExpiredToken", "InvalidClientTokenId"}) =>
              r.status = <<"Error: ", o.code>>
        /\ o.kind \in {"NoCredentialsError", "ProfileNotFound"} =>
              r.status = <<"No Credentials">>
        /\ (o.kind = "Exception" \/ (o.kind = "ok" /\ helper_fails)) =>
              r.status = <<"Error: ">> \o First30(o.msg)

C16_Witness ==
  /\ Probed
  /\ call.outcome.kind = "ok" /\ call.outcome.age = "exists_raises"
  /\ Len(call.outcome.msg) = 35
  /\ Len(ret.value.status) = 31

AskedSso == call.fn = "is_sso_profile"
CarriesSso(name) ==
  /\ name \in DOMAIN configFile.sections
  /\ configFile.sections[name] \cap {"sso_start_url", "sso_session"} # {}
InheritsSso == configFile.defaults \cap {"sso_start_url", "sso_session"} # {}

Dispatched == call.fn = "refresh_credentials"

\* C18: refresh_credentials calls exactly one refresher exactly once:
\* refresh_sso_profile(profile) when is_sso_profile(profile) is true, whatever
\* the delete flag, and then no key is created or deleted and no file
\* rewritten; otherwise refresh_iam_user_credentials(profile, delete_old) with
\* the flag as given; and it returns the refresher's result unchanged
C18_Dispatch ==
  Dispatched =>
    /\ Len(calls) = 1
    /\ IF is_sso_profile(call.profile)
         THEN /\ calls[1].fn = "refresh_sso_profile"
              /\ calls[1].args = <<call.profile>>
              /\ remoteKeys = call.remote /\ nextKey = call.next /\ credFile = call.cred
              /\ ~Did("create") /\ ~Did("delete")
         ELSE /\ calls[1].fn = "refresh_iam_user_credentials"
              /\ calls[1].args = <<call.profile, call.delete_old>>
              /\ profile_name = call.profile /\ delete_old = call.delete_old
    /\ ret # NoRet => (Done /\ ~ret.raised /\ ret.value = result)

C18_Witness ==
  /\ Dispatched /\ ~is_sso_profile(call.profile) /\ call.delete_old
  /\ ret # NoRet /\ ret.value.success
  /\ Did("delete") /\ runs = 2

\* ---- SpecListing ----
Listed21 == call.fn = "get_aws_profiles"
RankOf(n) == CHOOSE i \in 1..Len(NameOrder) : NameOrder[i] = n
WithoutPrefix(sec) ==
  IF Len(sec) > 0 /\ sec[1] = "profile " THEN SubSeq(sec, 2, Len(sec)) ELSE sec
ExpectedNames ==
  (IF credExists THEN {<<q>> : q \in DOMAIN credFile} ELSE {})
    \cup (IF configFile.state = "present"
            THEN {WithoutPrefix(sec) : sec \in DOMAIN configFile.sections}
            ELSE {})

\* C21: get_aws_profiles returns the sorted, duplicate-free list of the
\* credentials section names united with the config section names, a leading
\* 'profile ' removed: a section 'profile X' contributes exactly X, a bare
\* section itself, and a profile of both files appears once
C21_Listing ==
  Listed21 =>
    LET r == ret.value
    IN  /\ {r[i] : i \in 1..Len(r)} = ExpectedNames
        /\ \A i, j \in 1..Len(r) : i < j => RankOf(r[i]) < RankOf(r[j])

SsoRan == Dispatched /\ returned_at = "sso"

\* C22: refresh_sso_profile launches the login command once for the given
\* profile and returns; success is true iff the process exits with code 0, a
\* non-zero exit gives the exit code in the message, a missing tool gives the
\* 'AWS CLI not found' message, any other launch failure a generic message
C22_SsoOutcome ==
  SsoRan =>
    LET c == calls[1]
    IN  /\ Done /\ result # NoResult
        /\ Len(c.launched) = 1
        /\ c.launched[1] = <<"aws", "sso", "login", "--profile", call.profile>>
        /\ result.success <=> c.outcome = "exit0"
        /\ c.outcome = "exit1" =>
             /\ result.message.text = "SSO login failed with exit code"
             /\ result.message.code = 1
        /\ c.outcome = "cli_missing" => result.message.text = "AWS CLI not found"
        /\ c.outcome = "raises" => result.message.text = "Error during SSO login"

C22_Witness ==
  /\ SsoRan /\ calls[1].outcome = "cli_missing"
  /\ ~result.success /\ result.message.text = "AWS CLI not found"
  /\ ret # NoRet

\* ---- SpecProfiles, the readers ----
AskedKey == call.fn = "get_current_access_key_id"
KeyFileUnusable == ~credExists \/ call.outcome = "parse_raises"

\* C24: is_sso_profile returns false when the config file is missing or
\* malformed; get_current_access_key_id returns None when the credentials
\* file is missing or malformed or lacks the section or the
\* aws_access_key_id field, and the stored key id otherwise; neither raises
C24_ReadersFailSafe ==
  /\ (AskedSso /\ configFile.state \in {"absent", "malformed"}) =>
        (~ret.raised /\ ret.value = FALSE)
  /\ AskedKey =>
        /\ ~ret.raised
        /\ KeyFileUnusable => ret.value = None
        /\ (~KeyFileUnusable /\ call.profile \notin DOMAIN credFile) => ret.value = None
        /\ (~KeyFileUnusable /\ call.profile \in DOMAIN credFile) =>
             IF "aws_access_key_id" \in DOMAIN credFile[call.profile]
               THEN ret.value = credFile[call.profile]["aws_access_key_id"]
               ELSE ret.value = None

C24_Witness ==
  /\ AskedKey /\ credExists /\ call.outcome = "parse_raises"
  /\ call.profile \in DOMAIN credFile
  /\ "aws_access_key_id" \in DOMAIN credFile[call.profile]
  /\ IsKeyId(credFile[call.profile]["aws_access_key_id"])
  /\ ret.value = None

\* ---- SpecAge ----
AskedAge == call.fn = "get_credential_age"
AgeReadable ==
  /\ call.profile \in call.sections
  /\ call.outcome = "ok"

AskedExpiration == call.fn = "get_credential_expiration"

\* C26: get_credential_expiration never raises; it returns Permanent/Never
\* iff the credential material has no session token; with a token and a
\* successful remote call the remaining time as '<h>h <m>m' when an hour or
\* more remains and '<m>m' otherwise; with a token and a failing remote call
\* Temporary/N/A; N/A/N/A when the credential material cannot be read
C26_Expiration ==
  AskedExpiration =>
    LET t == call.session
        r == call.remaining
        v == ret.value
    IN  /\ ~ret.raised
        /\ (v.expires_in = <<"Permanent">> /\ v.expiration_date = <<"Never">>) <=> t = "permanent"
        /\ (t = "token" /\ r >= 3600) =>
             \E h \in 1..12, m \in 0..59 :
                /\ (h * 3600) + (m * 60) <= r /\ r < (h * 3600) + ((m + 1) * 60)
                /\ v.expires_in = <<ToString(h), "h ", ToString(m), "m">>
        /\ (t = "token" /\ r < 3600) =>
             \E m \in 0..59 :
                /\ m * 60 <= r /\ r < (m + 1) * 60
                /\ v.expires_in = <<ToString(m), "m">>
        /\ t = "token_unknown" => (v.expires_in = <<"Temporary">> /\ v.expiration_date = NA)
        /\ t \in {"credentials_raise", "no_credentials"} =>
             (v.expires_in = NA /\ v.expiration_date = NA)

C26_Witness ==
  /\ AskedExpiration /\ call.session = "token" /\ call.remaining = 41400
  /\ ret.value.expires_in = <<"11", "h ", "30", "m">>


\* ---- Spec, delete after the local commit ----
DeleteEntries == {i \in 1..Len(log) : log[i].op = "delete"}

\* C27: the remote delete of the old key is issued only after the
\* credentials file was rewritten with the new key id and secret: when the
\* run stands before the delete, the target section (if still there) holds
\* the new id and the new secret; every delete of the run's log comes after
\* a successful file write of the new key and names the old id read at
\* step 3, never the newly created key; and at the end of a run the key id
\* stored for the target profile is not a key this run deleted.
C27_DeleteAfterCommit ==
  /\ (pc = "delete" /\ SectionPresent(profile_name)) =>
        /\ GetField(credFile[profile_name], "aws_access_key_id") = new_access_key_id
        /\ GetField(credFile[profile_name], "aws_secret_access_key")
             = SecretOf(KeyNum(new_access_key_id))
  /\ \A i \in DeleteEntries :
        /\ log[i].key = old_access_key_id
        /\ log[i].key # new_access_key_id
        /\ \E j \in 1..(i - 1) :
              log[j].op = "file_write" /\ log[j].ok /\ log[j].key = new_access_key_id
  /\ Done =>
        \A i \in DeleteEntries :
           (log[i].ok /\ SectionPresent(profile_name)) =>
              GetField(credFile[profile_name], "aws_access_key_id") # log[i].key

C27_Witness ==
  /\ Done /\ result.success /\ delete_old
  /\ \E i \in DeleteEntries : log[i].ok /\ log[i].key = old_access_key_id
  /\ SectionPresent(profile_name)
  /\ GetField(credFile[profile_name], "aws_access_key_id") = new_access_key_id
  /\ KeyNum(old_access_key_id) \notin remoteKeys[UserNamed(username)]


\* ---- Spec, other profiles ----
LiveKey(k, remote) == IsKeyId(k) /\ \E pr \in DOMAIN remote : KeyNum(k) \in remote[pr]

StoredKeyOf(q) == GetField(credFile[q], "aws_access_key_id")

\* C28: over any sequence of rotations, with either delete flag, no step of
\* a rotation of profile P makes the access key stored for a different
\* profile Q stop being a live remote key, also when P and Q store the same
\* access key of the same IAM user.
C28_CrossProfileSafe ==
  [][\A q \in Profiles \ {profile_name} :
        (credExists /\ q \in DOMAIN credFile /\ LiveKey(StoredKeyOf(q), remoteKeys)
           /\ credExists' /\ q \in DOMAIN credFile')
          => LiveKey(StoredKeyOf(q)', remoteKeys')]_vars


\* ---- SpecProbe, eligibility ----
\* C29: for every ARN a successful identity check returns, the probe reports
\* credential_type 'User' iff the step-1 gate of rotation accepts the same
\* ARN as an IAM user.
C29_EligibilityAgrees ==
  (call.fn = "get_account_info" /\ ret.value.status = <<"Active">>) =>
     ((ret.value.credential_type = "User") <=> ~NotIamUser(call.outcome.arn))


\* ---- SpecCli ----
\* the answers of Inputs that are 'yes' once trimmed and lower-cased
YesInputs == {<<"y", "e", "s">>, <<" ", "Y", "E", "S", " ">>, <<"Y", "e", "s">>}

GateApplies ==
  \/ call.fn = "refresh_all_profiles"
  \/ call.fn = "refresh_profile" /\ call.delete_old /\ call.more.sso = {}

\* C30: refresh_profile with delete_old=true on a non-SSO profile, and
\* refresh_all_profiles in every case, call refresh_credentials only after
\* the confirmation input, trimmed and lower-cased, equals 'yes'; on any
\* other input they return 1 with no refresh call and no change to keys or
\* files.
C30_ConfirmationGate ==
  GateApplies =>
    /\ call.started # <<>> => (call.asked /\ call.input \in YesInputs)
    /\ (call.asked /\ call.input \notin YesInputs) =>
          /\ ret = [raised |-> FALSE, value |-> 1]
          /\ call.started = <<>>
          /\ runs = 0 /\ calls = <<>>
          /\ FilesNow = call.before

C30_Witness ==
  /\ call.fn = "refresh_all_profiles" /\ call.delete_old
  /\ call.input = <<" ", "Y", "E", "S", " ">>
  /\ Len(call.started) = 2
  /\ ret = [raised |-> FALSE, value |-> 0]
  /\ FilesNow # call.before

TimesStarted(p) == Cardinality({i \in DOMAIN call.started : call.started[i][1] = p})

\* a discovered profile whose identity check shows an IAM user
ProbedIamUser(p) ==
  call.more.probes[p].kind = "ok" /\ ~NotIamUser(call.more.probes[p].arn)

\* C23: once the operator confirmed with 'yes', refresh-all calls
\* refresh_credentials once for every discovered profile that is an IAM
\* user and once for every discovered profile that is SSO-configured.
C23_RefreshAllCoverage ==
  (call.fn = "refresh_all_profiles" /\ call.asked /\ call.input \in YesInputs
     /\ ret # NoRet) =>
    \A p \in DOMAIN call.more.probes :
       (p \in call.more.sso \/ ProbedIamUser(p)) => TimesStarted(p) = 1

====
